---- MODULE Spec2Model ----
(***************************************************************************)
(* Model of src/pipeline.go: Pipeline.Run, handleError, mergeEnv,          *)
(* buildImage, runImage, statusCode, setup and tearDown.                   *)
(*                                                                         *)
(* Text that ends up inside an error message (names, ids, messages) is a   *)
(* sequence of tokens; a token is a piece of literal text without '%', or  *)
(* a single character of a name.  Every Go string that can be copied into  *)
(* another one (names, stdin, stdout, stderr, commands, directories) is    *)
(* such a sequence, with <<>> as the empty string.                         *)
(***************************************************************************)
EXTENDS Integers, Sequences, FiniteSets, TLC

VARIABLES
    p,            \* the Pipeline the method is called on
    pc,           \* the external call Run is about to make, or "done"
    index,        \* loop variable of `for index, stage := range p.Stages`
    result,       \* the PipelineResult under construction
    ser,          \* the StageExecutionResult of the stage being processed
    hctx,         \* handleError's parameters and locals while the handler stage executes
    ret,          \* the (PipelineResult, error) pair Run returned
    clock,        \* the next value time.Now() returns
    calls,        \* history: the external invocations made so far, in order
    origin,       \* history: for each entry of result.StageResults, the 1-based
                  \* position of the pipeline stage it records, 0 for the handler
    writes,       \* history: how many steps assigned result.Status and how many
                  \* assigned result.FinalTime
    menv          \* the maps of one call of mergeEnv: the two arguments before and
                  \* after the call, and the map it returned

vars == <<p, pc, index, result, ser, hctx, ret, clock, calls, origin, writes, menv>>

-----------------------------------------------------------------------------
(* Bounds and input sets *)

MaxStages == 2

noExitError == -2

Outputs == {<<>>, <<"o1">>, <<"o2">>}

BuildOutputs == {<<"built">>}

ExitCodes == {-1, 1, 2}

EmptyEnv == <<>>

Env1(k, v) == [x \in {k} |-> v]

StageChoices ==
    { [Name |-> <<"a">>, Dir |-> "d1", BaseDir |-> "",
       BuildEnv |-> EmptyEnv, RunEnv |-> Env1("K2", "y")],
      [Name |-> <<"%", "b">>, Dir |-> "d2", BaseDir |-> "other",
       BuildEnv |-> Env1("K1", "y"), RunEnv |-> EmptyEnv] }

NoHandler ==
    [Name |-> <<>>, Dir |-> "", BaseDir |-> "", BuildEnv |-> EmptyEnv, RunEnv |-> EmptyEnv]

HandlerChoices ==
    { NoHandler,
      [Name |-> <<"h">>, Dir |-> "hd", BaseDir |-> "",
       BuildEnv |-> EmptyEnv, RunEnv |-> Env1("K1", "z")] }

StageSeqs == UNION { [1..n -> StageChoices] : n \in 0..MaxStages }

Pipelines ==
    { [Name |-> <<"p">>, DefaultBaseDir |-> "base",
       DefaultBuildEnv |-> Env1("K1", "x"), DefaultRunEnv |-> Env1("K1", "x"),
       Stages |-> ss, ErrorHandler |-> h] : ss \in StageSeqs, h \in HandlerChoices }

-----------------------------------------------------------------------------
(* package status (imported, not part of src/) *)

OK == "OK"
SetupError == "SetupError"
BuildError == "BuildError"
RunError == "RunError"
ErrorHandlerError == "ErrorHandlerError"

\* status.Code(exitStatus): the conversion of an exit status to a classification.
Code(exitStatus) ==
    IF exitStatus = 0 THEN OK ELSE "Code(" \o ToString(exitStatus) \o ")"

\* status.Text(code)
Text(code) == code

NoErr == [isNil |-> TRUE, code |-> "", text |-> <<>>]

\* status.NewError(code, err)
NewError(code, e) == [isNil |-> FALSE, code |-> code, text |-> e.text]

-----------------------------------------------------------------------------
(* package fmt *)

PlainError(text) == [isNil |-> FALSE, code |-> "", text |-> text]

RECURSIVE Escape(_)
Escape(s) ==
    IF s = <<>> THEN <<>>
    ELSE IF Head(s) = "\"" THEN <<"\\", "\"">> \o Escape(Tail(s))
    ELSE IF Head(s) = "\\" THEN <<"\\", "\\">> \o Escape(Tail(s))
    ELSE <<Head(s)>> \o Escape(Tail(s))

\* the verb %q applied to a string or an error
Quote(s) == <<"\"">> \o Escape(s) \o <<"\"">>

\* fmt.Sprintf(format) / fmt.Errorf(format) with no operands: every '%' of the
\* format starts a verb; "%%" prints '%', any other verb has no operand.
RECURSIVE FormatNoArgs(_)
FormatNoArgs(format) ==
    IF format = <<>> THEN <<>>
    ELSE IF Head(format) # "%" THEN <<Head(format)>> \o FormatNoArgs(Tail(format))
    ELSE IF Len(format) = 1 THEN <<"%!(NOVERB)">>
    ELSE IF format[2] = "%" THEN <<"%">> \o FormatNoArgs(Tail(Tail(format)))
    ELSE <<"%!", format[2], "(MISSING)">> \o FormatNoArgs(Tail(Tail(format)))

\* the verb %d
Decimal(n) == <<ToString(n)>>

-----------------------------------------------------------------------------
(* Records of the data model *)

ZeroCmdResult ==
    [Stdin |-> <<>>, Stdout |-> <<>>, Stderr |-> <<>>, Cmd |-> <<>>, CmdDir |-> <<>>,
     ExitStatus |-> 0, Env |-> <<>>]

ZeroSER ==
    [Stage |-> <<>>, StartTime |-> 0, FinalTime |-> 0,
     BuildResult |-> ZeroCmdResult, RunResult |-> ZeroCmdResult]

NoCtx ==
    [previousSer |-> ZeroSER, previousStatus |-> "", msg |-> <<>>,
     serError |-> ZeroSER, id |-> <<>>, erStdin |-> <<>>]

ZeroPipelineResult ==
    [Name |-> <<>>, StageResults |-> <<>>, StartTime |-> 0, FinalTime |-> 0, Status |-> ""]

NoReturn == [returned |-> FALSE, result |-> ZeroPipelineResult, err |-> NoErr]

\* os.Environ()
OsEnviron == <<"PATH=/usr/bin">>

-----------------------------------------------------------------------------
(* Outcomes of the external processes *)

\* What cmd.Run() can report for a docker command: a nil error (exit 0), an
\* *exec.Error (the binary was not found), an *exec.ExitError (the process ran
\* and exited non-zero, -1 when killed by a signal), or any other error (the
\* working directory is missing, the pipes failed).
RunOutcomes(outs) ==
    { [err |-> "nil", exitCode |-> 0, stdout |-> o, stderr |-> <<>>] : o \in outs }
    \cup { [err |-> "ExitError", exitCode |-> c, stdout |-> o, stderr |-> <<"failed">>] :
              c \in ExitCodes, o \in outs }
    \cup { [err |-> "ExecError", exitCode |-> 0, stdout |-> <<>>, stderr |-> <<>>],
           [err |-> "OtherError", exitCode |-> 0, stdout |-> <<>>, stderr |-> <<>>] }

\* err.Error() of what cmd.Run() returned
RunErrorText(o) ==
    CASE o.err = "ExecError" ->
            <<"exec: ", "\"", "docker", "\"", ": executable file not found in $PATH">>
      [] o.err = "ExitError" -> <<"exit status ">> \o Decimal(o.exitCode)
      [] o.err = "OtherError" -> <<"chdir: no such file or directory">>
      [] OTHER -> <<>>

SetupOutcomes == {"ok", "removeAllFails", "mkdirFails", "volumeCreateFails"}

TearDownOutcomes == {"ok", "volumeRmFails"}

\* The orders in which a range over the map env can visit its keys.
KeyOrders(env) ==
    { s \in [1..Cardinality(DOMAIN env) -> DOMAIN env] :
        \A i, j \in DOMAIN s : i # j => s[i] # s[j] }

-----------------------------------------------------------------------------
(* setup, tearDown, mergeEnv, statusCode, buildImage, runImage *)

setup(o) ==
    CASE o = "removeAllFails" ->
            PlainError(<<"error removing existing output folder: ">>
                       \o Quote(<<"unlinkat: permission denied">>))
      [] o = "mkdirFails" ->
            PlainError(<<"error creating output folder: ">>
                       \o Quote(<<"mkdir: permission denied">>))
      [] o = "volumeCreateFails" ->
            PlainError(<<"error creating volume dadosjusbr: ">>
                       \o Quote(<<"exit status 1">>))
      [] OTHER -> NoErr

tearDown(o) ==
    IF o = "volumeRmFails"
    THEN PlainError(<<"error removing existing volume dadosjusbr: ">>
                    \o Quote(<<"exit status 1">>))
    ELSE NoErr

mergeEnv(defaultEnv, stageEnv) ==
    [k \in (DOMAIN defaultEnv) \cup (DOMAIN stageEnv) |->
        IF k \in DOMAIN stageEnv THEN stageEnv[k] ELSE defaultEnv[k]]

statusCode(o) ==
    IF o.err = "nil" THEN 0
    ELSE IF o.err = "ExitError" THEN o.exitCode
    ELSE noExitError

\* filepath.Base of a directory given as its '/'-separated segments
PathBase(dir) ==
    LET segs == SelectSeq(dir, LAMBDA x : x # "")
    IN  IF segs # <<>> THEN segs[Len(segs)]
        ELSE IF Len(dir) > 1 THEN "/" ELSE "."

RECURSIVE Flags(_, _, _)
Flags(flag, env, order) ==
    IF order = <<>> THEN <<>>
    ELSE <<flag, Head(order) \o "=" \o env[Head(order)]>> \o Flags(flag, env, Tail(order))

\* cmdList of buildImage: strings.Split of the formatted command line
BuildCmd(dir, buildEnv, order) ==
    <<"docker", "build">> \o Flags("--build-arg", buildEnv, order)
        \o <<"-t", PathBase(dir), ".">>

\* cmdList of runImage; without variables the two blanks around the empty env
\* leave an empty word in the list
RunCmd(dir, runEnv, order) ==
    <<"docker", "run", "-i", "-v", "dadosjusbr:/output", "--rm">>
        \o (IF order = <<>> THEN <<"">> ELSE Flags("--env", runEnv, order))
        \o <<PathBase(dir)>>

buildImage(id, dir, buildEnv, order, o) ==
    IF o.err = "ExecError"
    THEN [res |-> [ZeroCmdResult EXCEPT !.ExitStatus = statusCode(o),
                                        !.Cmd = BuildCmd(dir, buildEnv, order)],
          err |-> PlainError(<<"command was not executed correctly: ">> \o RunErrorText(o))]
    ELSE [res |-> [Stdin |-> <<>>, Stdout |-> o.stdout, Stderr |-> o.stderr,
                   Cmd |-> BuildCmd(dir, buildEnv, order), CmdDir |-> dir,
                   ExitStatus |-> statusCode(o), Env |-> OsEnviron],
          err |-> NoErr]

runImage(id, dir, previousStdout, runEnv, order, o) ==
    IF o.err = "ExecError"
    THEN [res |-> [ZeroCmdResult EXCEPT !.ExitStatus = statusCode(o),
                                        !.Cmd = RunCmd(dir, runEnv, order)],
          err |-> PlainError(<<"command was not executed correctly: ">> \o RunErrorText(o))]
    ELSE [res |-> [Stdin |-> previousStdout, Stdout |-> o.stdout, Stderr |-> o.stderr,
                   Cmd |-> RunCmd(dir, runEnv, order), CmdDir |-> dir,
                   ExitStatus |-> statusCode(o), Env |-> OsEnviron],
          err |-> NoErr]

-----------------------------------------------------------------------------
(* encoding/json *)

JsonString(s) == <<"\"">> \o Escape(s) \o <<"\"">>

\* time.Time in RFC 3339; the zero time is year 1
JsonTime(t) == IF t = 0 THEN <<"\"0001-01-01T00:00:00Z\"">> ELSE <<"\"T", ToString(t), "\"">>

RECURSIVE JsonWords(_)
JsonWords(ws) ==
    IF ws = <<>> THEN <<>>
    ELSE JsonString(<<Head(ws)>>) \o (IF Len(ws) > 1 THEN <<",">> ELSE <<>>)
         \o JsonWords(Tail(ws))

\* a []string; the nil slice is null
JsonStrings(ws) == IF ws = <<>> THEN <<"null">> ELSE <<"[">> \o JsonWords(ws) \o <<"]">>

\* strings.Join(cmdList, " ")
RECURSIVE JoinWords(_)
JoinWords(ws) ==
    IF ws = <<>> THEN <<>>
    ELSE <<Head(ws)>> \o (IF Len(ws) > 1 THEN <<" ">> ELSE <<>>) \o JoinWords(Tail(ws))

\* strings.Join(dir segments, "/")
RECURSIVE JoinPath(_)
JoinPath(dir) ==
    IF dir = <<>> THEN <<>>
    ELSE <<Head(dir)>> \o (IF Len(dir) > 1 THEN <<"/">> ELSE <<>>) \o JoinPath(Tail(dir))

JsonCmdResult(c) ==
    <<"{\"stdin\":">> \o JsonString(c.Stdin)
    \o <<",\"stdout\":">> \o JsonString(c.Stdout)
    \o <<",\"stderr\":">> \o JsonString(c.Stderr)
    \o <<",\"cmd\":">> \o JsonString(JoinWords(c.Cmd))
    \o <<",\"cmdDir\":">> \o JsonString(JoinPath(c.CmdDir))
    \o <<",\"status\":">> \o Decimal(c.ExitStatus)
    \o <<",\"env\":">> \o JsonStrings(c.Env) \o <<"}">>

\* json.Marshal(previousSer); it cannot fail for a StageExecutionResult whose
\* times come from time.Now(), so the error return of line 241 is never taken.
JsonMarshal(s) ==
    <<"{\"stage\":">> \o JsonString(s.Stage)
    \o <<",\"start\":">> \o JsonTime(s.StartTime)
    \o <<",\"end\":">> \o JsonTime(s.FinalTime)
    \o <<",\"buildResult\":">> \o JsonCmdResult(s.BuildResult)
    \o <<",\"runResult\":">> \o JsonCmdResult(s.RunResult) \o <<"}">>

-----------------------------------------------------------------------------
(* The statements of Pipeline.Run and handleError between two external calls *)

\* setupFailed without the assignment of line 130
setupFailedNoStatus(res, e) ==
    [result |-> res,
     err |-> NewError(SetupError,
                PlainError(<<"error in inicial setup: ">> \o Quote(e.text)))]

\* Run, lines 130-131: setup failed
setupFailed(res, e) ==
    [result |-> [res EXCEPT !.Status = Text(SetupError)],
     err |-> NewError(SetupError,
                PlainError(<<"error in inicial setup: ">> \o Quote(e.text)))]

\* Run, lines 140-143: the directory of the stage
stageDir(stage) ==
    <<IF stage.BaseDir = "" THEN p.DefaultBaseDir ELSE stage.BaseDir, stage.Dir>>

\* Run, line 145
stageId(stage) == p.Name \o <<"/">> \o stage.Name

\* Run, line 152
buildErrorMsg(e) == <<"error when building image: ">> \o e.text

\* Run, line 156
buildStatusMsg(exitStatus, id) ==
    <<"error when building image: status code ">> \o Decimal(exitStatus)
    \o <<"(", Text(Code(exitStatus)), ")", " when building image for ">> \o id

\* previousStdout reading the build half of the previous record
previousStdoutOfBuild(idx, stageResults) ==
    IF idx # 0 THEN stageResults[idx].BuildResult.Stdout ELSE <<>>

\* Run, lines 162-166: the input of the stage at 0-based position idx
previousStdout(idx, stageResults) ==
    IF idx # 0 THEN stageResults[idx].RunResult.Stdout ELSE <<>>

\* Run, line 171
runErrorMsg(e) == <<"error when running image: ">> \o e.text

\* Run, line 175
runStatusMsg(exitStatus, id) ==
    <<"error when running image: Status code ">> \o Decimal(exitStatus)
    \o <<"(", Text(Code(exitStatus)), ")", " when running image for ">> \o id

\* stageSucceeded stamping the record without appending it
stageSucceededNoAppend(res, s, now) == res

\* stageSucceeded putting the record in front
stageSucceededInFront(res, s, now) ==
    [res EXCEPT !.StageResults = <<[s EXCEPT !.FinalTime = now]>> \o @]

\* Run, lines 180-181: the stage succeeded
stageSucceeded(res, s, now) ==
    [res EXCEPT !.StageResults = Append(@, [s EXCEPT !.FinalTime = now])]

\* tearDownFailed without the assignment of line 185
tearDownFailedNoStatus(res, e) ==
    [result |-> res,
     err |-> NewError(SetupError,
                PlainError(<<"error in tear down: ">> \o Quote(e.text)))]

\* Run, lines 185-186: tearDown failed
tearDownFailed(res, e) ==
    [result |-> [res EXCEPT !.Status = Text(SetupError)],
     err |-> NewError(SetupError,
                PlainError(<<"error in tear down: ">> \o Quote(e.text)))]

\* Run, lines 189-192
runSucceeded(res, now) ==
    [result |-> [res EXCEPT !.Status = Text(OK), !.FinalTime = now], err |-> NoErr]

\* recordFailure appending the record before stamping its end time
recordFailureStampsLate(res, previousSer, now) ==
    [result |-> [res EXCEPT !.StageResults = Append(@, previousSer)],
     previousSer |-> [previousSer EXCEPT !.FinalTime = now]]

\* recordFailure appending the record twice
recordFailureTwice(res, previousSer, now) ==
    LET stamped == [previousSer EXCEPT !.FinalTime = now]
    IN  [result |-> [res EXCEPT !.StageResults = Append(Append(@, stamped), stamped)],
         previousSer |-> stamped]

\* handleError, lines 214-215: the failing stage's record is stamped and appended
recordFailure(res, previousSer, now) ==
    LET stamped == [previousSer EXCEPT !.FinalTime = now]
    IN  [result |-> [res EXCEPT !.StageResults = Append(@, stamped)],
         previousSer |-> stamped]

\* handleError, line 217
handlerConfigured(handler) == handler.Dir # ""

\* handleError, line 223
handlerId(res, previousSer) ==
    res.Name \o <<"/">> \o previousSer.Stage \o <<" calls Error Handler">>

\* handleError, lines 226-230 and 246-250: the handler's command did not start
handlerNotStarted(res, serError, code, what, e, now) ==
    [result |-> [res EXCEPT !.StageResults = Append(@, serError),
                            !.Status = Text(ErrorHandlerError),
                            !.FinalTime = now],
     err |-> NewError(code,
                PlainError(<<"error when ", what, " image for error handler: ">> \o e.text))]

\* handlerExited reporting the classification of the failed step as Status
handlerExitedStepStatus(res, serError, code, what, exitStatus, id, now) ==
    [result |-> [res EXCEPT !.StageResults = Append(@, serError),
                            !.Status = Text(code),
                            !.FinalTime = now],
     err |-> NewError(code,
                PlainError(<<"error when ", what, " image for error handler: ", "Status code ">>
                           \o Decimal(exitStatus)
                           \o <<"(", Text(Code(exitStatus)), ")", " when running image for ">>
                           \o id))]

\* handleError, lines 233-237 and 253-257: the handler's command exited non-zero
handlerExited(res, serError, code, what, exitStatus, id, now) ==
    [result |-> [res EXCEPT !.StageResults = Append(@, serError),
                            !.Status = Text(ErrorHandlerError),
                            !.FinalTime = now],
     err |-> NewError(code,
                PlainError(<<"error when ", what, " image for error handler: ", "Status code ">>
                           \o Decimal(exitStatus)
                           \o <<"(", Text(Code(exitStatus)), ")", " when running image for ">>
                           \o id))]

\* originalFailure returning no error, as if the handler had settled the failure
originalFailureNoError(res, previousStatus, msg, now) ==
    [result |-> [res EXCEPT !.Status = Text(previousStatus), !.FinalTime = now],
     err |-> NoErr]

\* handleError, lines 261-263: no handler, or the handler succeeded
originalFailure(res, previousStatus, msg, now) ==
    [result |-> [res EXCEPT !.Status = Text(previousStatus), !.FinalTime = now],
     err |-> PlainError(FormatNoArgs(msg))]

-----------------------------------------------------------------------------
(* The state machine of Run *)

\* an entry of the history calls: the operation, the 1-based position of the
\* pipeline stage (0 for setup, tearDown and the handler), the input it was given,
\* whether it returned a nil error, the exit status it reported, what cmd.Run()
\* reported for the process, and the CmdResult the executor returned
Call(op, stage, stdin, errNil, exitStatus, proc, res) ==
    [op |-> op, stage |-> stage, stdin |-> stdin, errNil |-> errNil, exit |-> exitStatus,
     proc |-> proc, res |-> res]

\* what cmd.Run() reported inside setup and tearDown
VolumeProc(ok) ==
    [err |-> IF ok THEN "nil" ELSE "ExitError", exitCode |-> IF ok THEN 0 ELSE 1,
     stdout |-> <<>>, stderr |-> <<>>]

\* menv while no call of mergeEnv is being looked at
NoMerge ==
    [called |-> FALSE, defaultEnv0 |-> EmptyEnv, stageEnv0 |-> EmptyEnv,
     defaultEnv |-> EmptyEnv, stageEnv |-> EmptyEnv, env |-> EmptyEnv]

\* writes after a step that leaves res as the result
Wrote(res) ==
    [Status |-> writes.Status + (IF res.Status # result.Status THEN 1 ELSE 0),
     FinalTime |-> writes.FinalTime + (IF res.FinalTime # result.FinalTime THEN 1 ELSE 0)]

\* Run, line 127
Init ==
    /\ p \in Pipelines
    /\ pc = "setup"
    /\ index = 0
    /\ result = [Name |-> p.Name, StageResults |-> <<>>, StartTime |-> 1,
                 FinalTime |-> 0, Status |-> ""]
    /\ ser = ZeroSER
    /\ hctx = NoCtx
    /\ ret = NoReturn
    /\ clock = 2
    /\ calls = <<>>
    /\ origin = <<>>
    /\ writes = [Status |-> 0, FinalTime |-> 0]
    /\ menv = NoMerge

\* a return statement of Run or handleError
Return(out, org, now) ==
    /\ pc' = "done"
    /\ result' = out.result
    /\ ret' = [returned |-> TRUE, result |-> out.result, err |-> out.err]
    /\ origin' = org
    /\ clock' = now
    /\ writes' = Wrote(out.result)
    /\ UNCHANGED <<p, index, ser, hctx, menv>>

\* Run, lines 134-138 and 184: the head of the loop at 0-based position idx
LoopHead(idx, res, org, now) ==
    /\ result' = res
    /\ origin' = org
    /\ index' = idx
    /\ IF idx < Len(p.Stages)
       THEN /\ pc' = "build"
            /\ ser' = [ZeroSER EXCEPT !.Stage = p.Stages[idx + 1].Name, !.StartTime = now]
            /\ clock' = now + 1
       ELSE /\ pc' = "tearDown"
            /\ ser' = ZeroSER
            /\ clock' = now
    /\ writes' = Wrote(res)
    /\ UNCHANGED <<p, hctx, ret, menv>>

\* handleError going on to remove the shared volume after recording the failure
handleErrorTearsDown(res, previousSer, previousStatus, msg, pos) ==
    LET rec == recordFailure(res, previousSer, clock)
    IN  /\ pc' = "tearDown"
        /\ result' = [rec.result EXCEPT !.Status = Text(previousStatus)]
        /\ origin' = Append(origin, pos)
        /\ clock' = clock + 1
        /\ writes' = Wrote([rec.result EXCEPT !.Status = Text(previousStatus)])
        /\ UNCHANGED <<p, index, ser, hctx, ret, menv>>

\* handleError, lines 213-223 and 261-263: called from the stage at 1-based
\* position pos, up to the handler's build or to the return without a handler
handleError(res, previousSer, previousStatus, msg, pos) ==
    LET rec == recordFailure(res, previousSer, clock)
        org == Append(origin, pos)
    IN  IF handlerConfigured(p.ErrorHandler)
        THEN /\ pc' = "handlerBuild"
             /\ result' = rec.result
             /\ origin' = org
             /\ hctx' = [previousSer |-> rec.previousSer,
                         previousStatus |-> previousStatus,
                         msg |-> msg,
                         serError |-> [ZeroSER EXCEPT !.Stage = p.ErrorHandler.Name,
                                                      !.StartTime = clock + 1],
                         id |-> handlerId(rec.result, rec.previousSer),
                         erStdin |-> <<>>]
             /\ clock' = clock + 2
             /\ writes' = Wrote(rec.result)
             /\ UNCHANGED <<p, index, ser, ret, menv>>
        ELSE Return(originalFailure(rec.result, previousStatus, msg, clock + 1),
                    org, clock + 2)

\* Setup handing a setup failure to handleError
SetupEscalates ==
    /\ pc = "setup"
    /\ \E o \in SetupOutcomes :
         LET e == setup(o)
         IN  /\ calls' = Append(calls, Call("setup", 0, <<>>, e.isNil, 0, VolumeProc(e.isNil),
                                       ZeroCmdResult))
             /\ IF ~e.isNil
                THEN handleError(result, ZeroSER, SetupError,
                                 <<"error in inicial setup: ">> \o Quote(e.text), 0)
                ELSE LoopHead(0, result, origin, clock)

\* Run, lines 129-132
Setup ==
    /\ pc = "setup"
    /\ \E o \in SetupOutcomes :
         LET e == setup(o)
         IN  /\ calls' = Append(calls, Call("setup", 0, <<>>, e.isNil, 0, VolumeProc(e.isNil),
                                       ZeroCmdResult))
             /\ IF ~e.isNil
                THEN Return(setupFailed(result, e), origin, clock)
                ELSE LoopHead(0, result, origin, clock)

\* StageBuild without the check of the exit status of line 155
StageBuildIgnoresExit ==
    /\ pc = "build"
    /\ LET stage == p.Stages[index + 1]
           dir == stageDir(stage)
           id == stageId(stage)
           buildEnv == mergeEnv(p.DefaultBuildEnv, stage.BuildEnv)
       IN  \E o \in RunOutcomes(BuildOutputs), order \in KeyOrders(buildEnv) :
             LET b == buildImage(id, dir, buildEnv, order, o)
                 ser1 == [ser EXCEPT !.BuildResult = b.res]
             IN  /\ calls' = Append(calls, Call("build", index + 1, <<>>, b.err.isNil,
                                            b.res.ExitStatus, o, b.res))
                 /\ IF ~b.err.isNil
                    THEN handleError(result, ser1, BuildError, buildErrorMsg(b.err),
                                     index + 1)
                    ELSE /\ pc' = "run"
                         /\ ser' = ser1
                         /\ UNCHANGED <<p, index, result, hctx, ret, clock, origin, writes, menv>>

\* Run, lines 140-160: the build of the stage at position index
StageBuild ==
    /\ pc = "build"
    /\ LET stage == p.Stages[index + 1]
           dir == stageDir(stage)
           id == stageId(stage)
           buildEnv == mergeEnv(p.DefaultBuildEnv, stage.BuildEnv)
       IN  \E o \in RunOutcomes(BuildOutputs), order \in KeyOrders(buildEnv) :
             LET b == buildImage(id, dir, buildEnv, order, o)
                 ser1 == [ser EXCEPT !.BuildResult = b.res]
             IN  /\ calls' = Append(calls, Call("build", index + 1, <<>>, b.err.isNil,
                                            b.res.ExitStatus, o, b.res))
                 /\ IF ~b.err.isNil
                    THEN handleError(result, ser1, BuildError, buildErrorMsg(b.err),
                                     index + 1)
                    ELSE IF Code(b.res.ExitStatus) # OK
                    THEN handleError(result, ser1, BuildError,
                                     buildStatusMsg(b.res.ExitStatus, id), index + 1)
                    ELSE /\ pc' = "run"
                         /\ ser' = ser1
                         /\ UNCHANGED <<p, index, result, hctx, ret, clock, origin, writes, menv>>

\* StageRun without the check of the exit status of line 174
StageRunIgnoresExit ==
    /\ pc = "run"
    /\ LET stage == p.Stages[index + 1]
           dir == stageDir(stage)
           id == stageId(stage)
           stdout == previousStdout(index, result.StageResults)
           runEnv == mergeEnv(p.DefaultRunEnv, stage.RunEnv)
       IN  \E o \in RunOutcomes(Outputs), order \in KeyOrders(runEnv) :
             LET r == runImage(id, dir, stdout, runEnv, order, o)
                 ser1 == [ser EXCEPT !.RunResult = r.res]
             IN  /\ calls' = Append(calls, Call("run", index + 1, stdout, r.err.isNil,
                                            r.res.ExitStatus, o, r.res))
                 /\ IF ~r.err.isNil
                    THEN handleError(result, ser1, RunError, runErrorMsg(r.err), index + 1)
                    ELSE LoopHead(index + 1, stageSucceeded(result, ser1, clock),
                                  Append(origin, index + 1), clock + 1)

\* Run, lines 162-182: the run of the stage at position index
StageRun ==
    /\ pc = "run"
    /\ LET stage == p.Stages[index + 1]
           dir == stageDir(stage)
           id == stageId(stage)
           stdout == previousStdout(index, result.StageResults)
           runEnv == mergeEnv(p.DefaultRunEnv, stage.RunEnv)
       IN  \E o \in RunOutcomes(Outputs), order \in KeyOrders(runEnv) :
             LET r == runImage(id, dir, stdout, runEnv, order, o)
                 ser1 == [ser EXCEPT !.RunResult = r.res]
             IN  /\ calls' = Append(calls, Call("run", index + 1, stdout, r.err.isNil,
                                            r.res.ExitStatus, o, r.res))
                 /\ IF ~r.err.isNil
                    THEN handleError(result, ser1, RunError, runErrorMsg(r.err), index + 1)
                    ELSE IF Code(r.res.ExitStatus) # OK
                    THEN handleError(result, ser1, RunError,
                                     runStatusMsg(r.res.ExitStatus, id), index + 1)
                    ELSE LoopHead(index + 1, stageSucceeded(result, ser1, clock),
                                  Append(origin, index + 1), clock + 1)

\* TearDown invoking the removal a second time after a first failure
TearDownRetriesOnce ==
    /\ pc = "tearDown"
    /\ \E o \in TearDownOutcomes :
         LET e == tearDown(o)
         IN  /\ calls' = Append(calls, Call("tearDown", 0, <<>>, e.isNil, 0, VolumeProc(e.isNil),
                                       ZeroCmdResult))
             /\ IF ~e.isNil
                THEN IF calls[Len(calls)].op # "tearDown"
                     THEN UNCHANGED <<p, pc, index, result, ser, hctx, ret, clock, origin,
                                      writes, menv>>
                     ELSE Return(tearDownFailed(result, e), origin, clock)
                ELSE Return(runSucceeded(result, clock), origin, clock + 1)

\* Run, lines 184-192
TearDown ==
    /\ pc = "tearDown"
    /\ \E o \in TearDownOutcomes :
         LET e == tearDown(o)
         IN  /\ calls' = Append(calls, Call("tearDown", 0, <<>>, e.isNil, 0, VolumeProc(e.isNil),
                                       ZeroCmdResult))
             /\ IF ~e.isNil
                THEN Return(tearDownFailed(result, e), origin, clock)
                ELSE Return(runSucceeded(result, clock), origin, clock + 1)

\* handleError, lines 224-243: the build of the handler stage and, after it
\* succeeded, the serialization of the failing stage's record
HandlerBuild ==
    /\ pc = "handlerBuild"
    /\ LET handler == p.ErrorHandler
       IN  \E o \in RunOutcomes(BuildOutputs), order \in KeyOrders(handler.BuildEnv) :
             LET b == buildImage(hctx.id, <<handler.Dir>>, handler.BuildEnv, order, o)
                 serError == [hctx.serError EXCEPT !.BuildResult = b.res]
             IN  /\ calls' = Append(calls, Call("handlerBuild", 0, <<>>, b.err.isNil,
                                            b.res.ExitStatus, o, b.res))
                 /\ IF ~b.err.isNil
                    THEN Return(handlerNotStarted(result, serError, BuildError, "building",
                                                  b.err, clock),
                                Append(origin, 0), clock + 1)
                    ELSE IF Code(b.res.ExitStatus) # OK
                    THEN Return(handlerExited(result, serError, BuildError, "building",
                                              b.res.ExitStatus, hctx.id, clock),
                                Append(origin, 0), clock + 1)
                    ELSE /\ pc' = "handlerRun"
                         /\ hctx' = [hctx EXCEPT !.serError = serError,
                                                 !.erStdin = JsonMarshal(hctx.previousSer)]
                         /\ UNCHANGED <<p, index, result, ser, ret, clock, origin, writes, menv>>

\* handleError, lines 244-263: the run of the handler stage on that serialization
HandlerRun ==
    /\ pc = "handlerRun"
    /\ LET handler == p.ErrorHandler
           erStdin == hctx.erStdin
       IN  \E o \in RunOutcomes(Outputs), order \in KeyOrders(handler.RunEnv) :
             LET r == runImage(hctx.id, <<handler.Dir>>, erStdin, handler.RunEnv, order, o)
                 serError == [hctx.serError EXCEPT !.RunResult = r.res]
             IN  /\ calls' = Append(calls, Call("handlerRun", 0, erStdin, r.err.isNil,
                                            r.res.ExitStatus, o, r.res))
                 /\ IF ~r.err.isNil
                    THEN Return(handlerNotStarted(result, serError, RunError, "running",
                                                  r.err, clock),
                                Append(origin, 0), clock + 1)
                    ELSE IF Code(r.res.ExitStatus) # OK
                    THEN Return(handlerExited(result, serError, RunError, "running",
                                              r.res.ExitStatus, hctx.id, clock),
                                Append(origin, 0), clock + 1)
                    ELSE Return(originalFailure(result, hctx.previousStatus, hctx.msg, clock),
                                origin, clock + 1)

-----------------------------------------------------------------------------
(* One call of mergeEnv on arbitrary maps *)

MergeKeys == {"K1", "K2"}

MergeVals == {"x", "y"}

\* the maps over the keys and values above, the empty (or nil) map included
EnvMaps == UNION { [D -> MergeVals] : D \in SUBSET MergeKeys }

\* mergeEnv writing the stage's entries into defaultEnv and returning it
mergeEnvIntoDefault(defaultEnv, stageEnv) ==
    [env |-> mergeEnv(defaultEnv, stageEnv),
     defaultEnv |-> mergeEnv(defaultEnv, stageEnv),
     stageEnv |-> stageEnv]

\* mergeEnv, lines 266-276, with the maps it was given as they are when it
\* returns: it makes a new map and assigns to that one only
mergeEnvCall(defaultEnv, stageEnv) ==
    [env |-> mergeEnv(defaultEnv, stageEnv),
     defaultEnv |-> defaultEnv,
     stageEnv |-> stageEnv]

InitMerge ==
    /\ p = [Name |-> <<"p">>, DefaultBaseDir |-> "base",
            DefaultBuildEnv |-> EmptyEnv, DefaultRunEnv |-> EmptyEnv,
            Stages |-> <<>>, ErrorHandler |-> NoHandler]
    /\ pc = "mergeEnv"
    /\ index = 0
    /\ result = ZeroPipelineResult
    /\ ser = ZeroSER
    /\ hctx = NoCtx
    /\ ret = NoReturn
    /\ clock = 1
    /\ calls = <<>>
    /\ origin = <<>>
    /\ writes = [Status |-> 0, FinalTime |-> 0]
    /\ \E d \in EnvMaps, s \in EnvMaps :
          menv = [called |-> FALSE, defaultEnv0 |-> d, stageEnv0 |-> s,
                  defaultEnv |-> d, stageEnv |-> s, env |-> EmptyEnv]

MergeEnv ==
    /\ pc = "mergeEnv"
    /\ LET c == mergeEnvCall(menv.defaultEnv, menv.stageEnv)
       IN  menv' = [menv EXCEPT !.called = TRUE, !.env = c.env,
                                !.defaultEnv = c.defaultEnv, !.stageEnv = c.stageEnv]
    /\ pc' = "merged"
    /\ UNCHANGED <<p, index, result, ser, hctx, ret, clock, calls, origin, writes>>

SpecMerge == InitMerge /\ [][MergeEnv]_vars

-----------------------------------------------------------------------------

Next == Setup \/ StageBuild \/ StageRun \/ TearDown \/ HandlerBuild \/ HandlerRun

Spec == Init /\ [][Next]_vars

\* Run under the assumption that every external invocation returns: cmd.Run()
\* blocks until the process exits (lines 296 and 354), so a step that is enabled
\* is eventually taken
SpecFair == Spec /\ WF_vars(Next)

-----------------------------------------------------------------------------
(* Vocabulary of the properties *)

N == Len(p.Stages)

StageResults == result.StageResults

Returned == pc = "done" /\ ret.returned

\* the call returned a nil error and exit status 0
CallOk(c) == c.errNil /\ c.exit = 0

\* the process started and exited with a non-zero code of its own
CallExitedNonZero(c) == c.errNil /\ c.exit # 0 /\ c.exit # noExitError

CallsOf(ops) == SelectSeq(calls, LAMBDA c : c.op \in ops)

LastCall == calls[Len(calls)]

\* setup, every stage's build and every stage's run were invoked and succeeded
AllStagesSucceeded ==
    /\ Len(CallsOf({"setup"})) = 1
    /\ \A i \in 1..N : \A op \in {"build", "run"} :
          \E k \in DOMAIN calls :
             calls[k].op = op /\ calls[k].stage = i /\ CallOk(calls[k])

\* a call of setup, of a stage's build or of a stage's run failed
SomeStageCallFailed ==
    \E k \in DOMAIN calls : calls[k].op \in {"setup", "build", "run"} /\ ~CallOk(calls[k])

Contains(text, part) ==
    \E i \in 0..(Len(text) - Len(part)) : SubSeq(text, i + 1, i + Len(part)) = part

StartsWith(text, part) ==
    Len(text) >= Len(part) /\ SubSeq(text, 1, Len(part)) = part

\* the image tag at the end of a build command line ("-t <tag> .")
BuildTag(c) == c.Cmd[Len(c.Cmd) - 1]

\* entry i of StageResults records the build and run of the stage configured at
\* position i
IsRecordOfStage(rec, i) ==
    /\ rec.Stage = p.Stages[i].Name
    /\ BuildTag(rec.BuildResult) = PathBase(stageDir(p.Stages[i]))

-----------------------------------------------------------------------------
(* C1 *)

\* C1: when setup, every stage's build and run, and tearDown succeed, Run returns
\* a nil error and Status "OK", StageResults has one entry per stage, and entry i
\* is the record of the i-th configured stage.
C1_AllSucceed ==
    (Returned /\ AllStagesSucceeded /\ LastCall.op = "tearDown" /\ CallOk(LastCall))
    => /\ ret.err.isNil
       /\ ret.result.Status = "OK"
       /\ Len(ret.result.StageResults) = N
       /\ \A i \in 1..N :
            /\ IsRecordOfStage(ret.result.StageResults[i], i)
            /\ ret.result.StageResults[i].RunResult.CmdDir = stageDir(p.Stages[i])
            /\ origin[i] = i

C1_Witness ==
    /\ Returned /\ AllStagesSucceeded /\ LastCall.op = "tearDown" /\ CallOk(LastCall)
    /\ N >= 2
    /\ p.Stages[1] # p.Stages[2]

-----------------------------------------------------------------------------
(* C2 *)

\* the input of stage i's run according to the chaining rule
ChainedInput(i) == IF i = 1 THEN <<>> ELSE StageResults[i - 1].RunResult.Stdout

\* C2 as stated: every run of a pipeline stage gets the chained input, and the
\* input is recorded as RunResult.Stdin of the stage's record.
C2_Original ==
    \A k \in DOMAIN calls :
       calls[k].op = "run"
       => /\ calls[k].stdin = ChainedInput(calls[k].stage)
          /\ StageResults[calls[k].stage].RunResult.Stdin = calls[k].stdin

\* C2, amended: every run of a pipeline stage gets the chained input (empty for
\* stage 1, else the Stdout of the RunResult of stage i-1), whatever fails later;
\* the input is recorded as RunResult.Stdin when runImage returns a nil error, and
\* RunResult.Stdin stays empty when the docker binary could not be executed.
C2_Chaining ==
    \A k \in DOMAIN calls :
       calls[k].op = "run"
       => /\ calls[k].stdin = ChainedInput(calls[k].stage)
          /\ StageResults[calls[k].stage].RunResult.Stdin =
                (IF calls[k].errNil THEN calls[k].stdin ELSE <<>>)

C2_Witness ==
    \E k \in DOMAIN calls :
       /\ calls[k].op = "run" /\ calls[k].stage = 2 /\ calls[k].stdin # <<>>
       /\ calls[k].errNil /\ calls[k].exit # 0
       /\ StageResults[2].RunResult.Stdin = StageResults[1].RunResult.Stdout

-----------------------------------------------------------------------------
(* C3 *)

\* C3: when setup fails, Run returns at once with StageResults empty, Status
\* "SetupError" and a non-nil error, and no build or run was invoked.
C3_SetupFails ==
    (calls # <<>> /\ calls[1].op = "setup" /\ ~CallOk(calls[1]))
    => /\ Returned
       /\ ret.result.StageResults = <<>>
       /\ ret.result.Status = "SetupError"
       /\ ~ret.err.isNil
       /\ Len(calls) = 1

C3_Witness ==
    /\ Returned /\ Len(calls) = 1 /\ ~CallOk(calls[1]) /\ N >= 1
    /\ handlerConfigured(p.ErrorHandler)

-----------------------------------------------------------------------------
(* C4 *)

\* Run returned from handleError without a handler because the build of stage k
\* started and exited non-zero
BuildExitedUnhandled(k) ==
    /\ Returned
    /\ ~handlerConfigured(p.ErrorHandler)
    /\ LastCall.op = "build" /\ LastCall.stage = k /\ CallExitedNonZero(LastCall)

\* C4 without the text of the error: the length of StageResults, the halves of
\* the k-th entry and the Status after an unhandled non-zero build exit.
C4_RecordAndStatus ==
    \A k \in 1..N :
       BuildExitedUnhandled(k)
       => /\ Len(ret.result.StageResults) = k
          /\ IsRecordOfStage(ret.result.StageResults[k], k)
          /\ ret.result.StageResults[k].BuildResult.ExitStatus = LastCall.exit
          /\ ret.result.StageResults[k].BuildResult.CmdDir = stageDir(p.Stages[k])
          /\ ret.result.StageResults[k].RunResult = ZeroCmdResult
          /\ ret.result.Status = "BuildError"
          /\ ~ret.err.isNil

\* C4: with no handler, a non-zero exit of stage k's build leaves k entries, the
\* k-th with only its build half, Status "BuildError", and an error whose text
\* carries the stage identifier and the exit code.
C4_Original ==
    /\ C4_RecordAndStatus
    /\ \A k \in 1..N :
          BuildExitedUnhandled(k)
          => /\ Contains(ret.err.text, stageId(p.Stages[k]))
             /\ Contains(ret.err.text, Decimal(LastCall.exit))

-----------------------------------------------------------------------------
(* C5 *)

\* Run returned after the handler's build and run both succeeded
HandlerSucceeded ==
    /\ Returned
    /\ LastCall.op = "handlerRun" /\ CallOk(LastCall)

\* C5 without the text of the error: after a successful handler the Status is
\* the classification of the original failure and the error is not nil.
C5_StatusAfterHandler ==
    HandlerSucceeded
    => /\ ret.result.Status = hctx.previousStatus
       /\ ret.result.Status =
             (IF calls[Len(calls) - 2].op = "run" THEN "RunError" ELSE "BuildError")
       /\ ~ret.err.isNil

\* C5: after a successful handler the Status is the classification of the
\* original failure and the returned error is the original failure message.
C5_Original ==
    /\ C5_StatusAfterHandler
    /\ HandlerSucceeded => ret.err.text = hctx.msg

-----------------------------------------------------------------------------
(* C6 *)

\* Run returned because the handler's build or run failed
HandlerFailed ==
    /\ Returned
    /\ LastCall.op \in {"handlerBuild", "handlerRun"} /\ ~CallOk(LastCall)

\* C6: when the handler's build or run fails, Status is "ErrorHandlerError", the
\* error is the handler's own failure and not the original one, and StageResults
\* ends with the failing stage's record followed by the handler's record, which
\* has only its build half when the handler's build failed.
C6_HandlerFailureOverrides ==
    HandlerFailed
    => LET rs == ret.result.StageResults
           n == Len(rs)
           what == IF LastCall.op = "handlerBuild" THEN "building" ELSE "running"
       IN  /\ ret.result.Status = "ErrorHandlerError"
           /\ ~ret.err.isNil
           /\ StartsWith(ret.err.text, <<"error when ", what, " image for error handler: ">>)
           /\ ret.err.text # hctx.msg
           /\ ret.err.text # FormatNoArgs(hctx.msg)
           /\ n >= 2
           /\ rs[n - 1] = hctx.previousSer
           /\ origin[n - 1] >= 1
           /\ IsRecordOfStage(rs[n - 1], origin[n - 1])
           /\ rs[n].Stage = p.ErrorHandler.Name
           /\ BuildTag(rs[n].BuildResult) = PathBase(<<p.ErrorHandler.Dir>>)
           /\ rs[n].BuildResult.ExitStatus =
                 (IF LastCall.op = "handlerBuild" THEN LastCall.exit ELSE 0)
           /\ IF LastCall.op = "handlerBuild"
              THEN rs[n].RunResult = ZeroCmdResult
              ELSE /\ rs[n].RunResult.ExitStatus = LastCall.exit
                   /\ rs[n].RunResult.Cmd # <<>>

C6_Witness ==
    /\ HandlerFailed
    /\ LastCall.op = "handlerRun" /\ LastCall.errNil
    /\ Len(ret.result.StageResults) = 3

-----------------------------------------------------------------------------
(* C7 *)

\* C7: tearDown is invoked only as the last call, after setup and the build and
\* run of every stage succeeded; a Run that returned after full success invoked
\* it exactly once, and a Run in which setup, a build or a run failed, never.
C7_TearDownOnlyAfterSuccess ==
    /\ \A k \in DOMAIN calls :
          calls[k].op = "tearDown"
          => /\ k = Len(calls)
             /\ AllStagesSucceeded
             /\ \A j \in 1..(k - 1) : CallOk(calls[j])
             /\ k = 2 * N + 2
             /\ N > 0 => (calls[k - 1].op = "run" /\ calls[k - 1].stage = N)
    /\ Len(CallsOf({"tearDown"})) <= 1
    /\ (Returned /\ ~SomeStageCallFailed) => Len(CallsOf({"tearDown"})) = 1
    /\ SomeStageCallFailed => Len(CallsOf({"tearDown"})) = 0

C7_Witness ==
    /\ Returned
    /\ N >= 2
    /\ Len(CallsOf({"tearDown"})) = 1
    /\ LastCall.op = "tearDown"

-----------------------------------------------------------------------------
(* C8 *)

\* the number of pipeline stages whose build was invoked
StagesAttempted == Len(CallsOf({"build"}))

\* the handler's build was invoked
HandlerRan == CallsOf({"handlerBuild"}) # <<>>

\* C8: in the returned result, StageResults has one entry per attempted stage,
\* plus one if the handler ran, also when the handler succeeded.
C8_Original ==
    Returned
    => Len(ret.result.StageResults) = StagesAttempted + (IF HandlerRan THEN 1 ELSE 0)

-----------------------------------------------------------------------------
(* C9 *)

\* C9: in every state StageResults has at most N + 1 entries; the records of
\* pipeline stages are those of stages 1..k in order, none skipped or repeated,
\* and a handler record, if there is one, is the last entry.
C9_OrderedPrefix ==
    LET n == Len(StageResults)
    IN  /\ n <= N + 1
        /\ Len(origin) = n
        /\ \E k \in 0..N :
              /\ k <= n /\ n <= k + 1
              /\ \A i \in 1..k : origin[i] = i /\ IsRecordOfStage(StageResults[i], i)
              /\ n = k + 1
                 => /\ origin[n] = 0
                    /\ StageResults[n].Stage = p.ErrorHandler.Name
                    /\ BuildTag(StageResults[n].BuildResult)
                          = PathBase(<<p.ErrorHandler.Dir>>)

C9_Witness ==
    /\ N >= 2
    /\ Len(StageResults) = N + 1
    /\ origin[N + 1] = 0
    /\ p.Stages[1] # p.Stages[2]

-----------------------------------------------------------------------------
(* C10 *)

\* C10: when setup and all stages succeed and tearDown fails, Run returns a
\* non-nil error and Status "SetupError", StageResults holds the records of all
\* N stages, and the handler is not invoked.
C10_TearDownFails ==
    (calls # <<>> /\ LastCall.op = "tearDown" /\ ~CallOk(LastCall))
    => /\ Returned
       /\ ~ret.err.isNil
       /\ ret.result.Status = "SetupError"
       /\ Len(ret.result.StageResults) = N
       /\ \A i \in 1..N :
            /\ IsRecordOfStage(ret.result.StageResults[i], i)
            /\ ret.result.StageResults[i].BuildResult.ExitStatus = 0
            /\ ret.result.StageResults[i].RunResult.ExitStatus = 0
            /\ ret.result.StageResults[i].RunResult.Cmd # <<>>
       /\ CallsOf({"handlerBuild", "handlerRun"}) = <<>>

C10_Witness ==
    /\ Returned
    /\ LastCall.op = "tearDown" /\ ~CallOk(LastCall)
    /\ N >= 2
    /\ handlerConfigured(p.ErrorHandler)

-----------------------------------------------------------------------------
(* C11 *)

\* the part of C11 about Status: it is assigned exactly once on every path
C11_StatusOnce ==
    /\ writes.Status <= 1
    /\ Returned => (writes.Status = 1 /\ ret.result.Status # "")

\* C11: on every return of Run the Status and the end timestamp FinalTime have
\* each been set exactly once.
C11_Original ==
    /\ C11_StatusOnce
    /\ writes.FinalTime <= 1
    /\ Returned => (writes.FinalTime = 1 /\ ret.result.FinalTime # 0)

-----------------------------------------------------------------------------
(* C12 *)

ExecutorOps == {"build", "run", "handlerBuild", "handlerRun"}

\* the CmdResult has every field the executor fills after the process was started
FullyPopulated(c) ==
    /\ c.res.Cmd # <<>> /\ c.res.CmdDir # <<>> /\ c.res.Env = OsEnviron
    /\ c.res.Stdout = c.proc.stdout /\ c.res.Stderr = c.proc.stderr
    /\ c.res.Stdin = c.stdin

\* the CmdResult has only ExitStatus and Cmd
OnlySentinelAndCmd(c) ==
    /\ c.res.Cmd # <<>>
    /\ c.res.ExitStatus < 0
    /\ c.res = [ZeroCmdResult EXCEPT !.ExitStatus = c.res.ExitStatus, !.Cmd = c.res.Cmd]

\* what buildImage and runImage do return for each outcome of cmd.Run(): the
\* error and the bare CmdResult only for an *exec.Error
C12_Shapes ==
    \A k \in DOMAIN calls :
       calls[k].op \in ExecutorOps
       => LET c == calls[k]
          IN  /\ c.proc.err = "nil" => (c.res.ExitStatus = 0 /\ c.errNil)
              /\ c.proc.err = "ExecError" => (~c.errNil /\ OnlySentinelAndCmd(c))
              /\ c.proc.err = "OtherError"
                 => (c.errNil /\ c.res.ExitStatus = noExitError /\ FullyPopulated(c))
              /\ c.proc.err = "ExitError"
                 => (c.errNil /\ c.res.ExitStatus = c.proc.exitCode /\ FullyPopulated(c))

\* C12: success gives ExitStatus 0 and a nil error; a process that could not be
\* started (binary missing, or working directory missing) gives a non-nil error
\* and a CmdResult with only the negative sentinel and Cmd; a process that exited
\* with c # 0 gives ExitStatus c, a nil error and a fully populated CmdResult.
C12_Original ==
    \A k \in DOMAIN calls :
       calls[k].op \in ExecutorOps
       => LET c == calls[k]
          IN  /\ c.proc.err = "nil" => (c.res.ExitStatus = 0 /\ c.errNil)
              /\ c.proc.err \in {"ExecError", "OtherError"}
                 => (~c.errNil /\ OnlySentinelAndCmd(c))
              /\ c.proc.err = "ExitError"
                 => (c.errNil /\ c.res.ExitStatus = c.proc.exitCode /\ FullyPopulated(c))

-----------------------------------------------------------------------------
(* C13 *)

SetupFailed == calls # <<>> /\ calls[1].op = "setup" /\ ~calls[1].errNil

\* C13 as stated: when setup fails and a handler is configured, the handler
\* stage is built and run before Run returns.
C13_Original ==
    (Returned /\ SetupFailed /\ handlerConfigured(p.ErrorHandler))
    => /\ CallsOf({"handlerBuild"}) # <<>>
       /\ ((Len(calls) >= 2 /\ CallOk(calls[2])) => CallsOf({"handlerRun"}) # <<>>)

\* C13, amended: the handler is triggered by a failed build or run of a pipeline
\* stage only; when setup fails Run returns Failed at once, with Status
\* "SetupError" and without building or running the handler, also when a handler
\* is configured.
C13_NoEscalationFromSetup ==
    /\ SetupFailed
       => /\ Returned
          /\ ret.result.Status = "SetupError"
          /\ CallsOf({"handlerBuild", "handlerRun"}) = <<>>
    /\ \A k \in DOMAIN calls :
          calls[k].op = "handlerBuild"
          => /\ k > 1
             /\ calls[k - 1].op \in {"build", "run"}
             /\ ~CallOk(calls[k - 1])

C13_Witness ==
    /\ Returned /\ SetupFailed
    /\ handlerConfigured(p.ErrorHandler)
    /\ N = 2 /\ p.Stages[1] # p.Stages[2]

-----------------------------------------------------------------------------
(* C14 *)

\* C14: mergeEnv returns a map over the union of both key sets, in which a key
\* of defaultEnv alone keeps its value and every key of stageEnv takes the
\* stage's value; neither argument is modified, empty or nil arguments included.
C14_MergeEnv ==
    menv.called
    => /\ DOMAIN menv.env = (DOMAIN menv.defaultEnv0) \cup (DOMAIN menv.stageEnv0)
       /\ \A k \in (DOMAIN menv.defaultEnv0) \ (DOMAIN menv.stageEnv0) :
             menv.env[k] = menv.defaultEnv0[k]
       /\ \A k \in DOMAIN menv.stageEnv0 : menv.env[k] = menv.stageEnv0[k]
       /\ menv.defaultEnv = menv.defaultEnv0
       /\ menv.stageEnv = menv.stageEnv0

C14_Witness ==
    /\ menv.called
    /\ DOMAIN menv.defaultEnv0 = {"K1", "K2"}
    /\ DOMAIN menv.stageEnv0 = {"K1"}
    /\ menv.defaultEnv0["K1"] # menv.stageEnv0["K1"]
    /\ menv.env["K1"] = menv.stageEnv0["K1"]
    /\ menv.env["K2"] = menv.defaultEnv0["K2"]

-----------------------------------------------------------------------------
(* C15 *)

\* C15: every return of Run is Done, with Status "OK" and a nil error, or Failed,
\* with Status SetupError, BuildError, RunError or ErrorHandlerError and a non-nil
\* error; the error is nil exactly when Status is "OK", and Status is never empty.
C15_TerminalStates ==
    Returned
    => /\ ret.result.Status \in
             {"OK", "SetupError", "BuildError", "RunError", "ErrorHandlerError"}
       /\ ret.err.isNil <=> ret.result.Status = "OK"
       /\ ret.result = result

C15_Witness ==
    /\ HandlerSucceeded
    /\ ret.result.Status = "RunError"
    /\ ~ret.err.isNil

-----------------------------------------------------------------------------
(* C16 *)

\* C16: setup succeeds before any build; run(i) is invoked only right after
\* build(i) returned a nil error and exit status 0; build(i+1) only right after
\* run(i) did; after the first build or run that is not OK no build or run of a
\* pipeline stage is invoked.  Run makes its calls one after the other, each
\* blocking until the process exits, so one call at most is in progress.
C16_SequentialGating ==
    \A k \in DOMAIN calls :
       LET c == calls[k]
       IN  /\ (k = 1) <=> (c.op = "setup")
           /\ c.op \in {"build", "run"} => \A j \in 1..(k - 1) : CallOk(calls[j])
           /\ c.op = "run"
              => /\ calls[k - 1].op = "build"
                 /\ calls[k - 1].stage = c.stage
                 /\ CallOk(calls[k - 1])
           /\ (c.op = "build" /\ c.stage = 1) => k = 2
           /\ (c.op = "build" /\ c.stage > 1)
              => /\ calls[k - 1].op = "run"
                 /\ calls[k - 1].stage = c.stage - 1
                 /\ CallOk(calls[k - 1])

C16_Witness ==
    /\ Len(calls) = 5
    /\ calls[5].op = "run" /\ calls[5].stage = 2 /\ ~CallOk(calls[5])
    /\ ~handlerConfigured(p.ErrorHandler)
    /\ Returned

-----------------------------------------------------------------------------
(* C17 *)

\* C17: the handler's build is invoked at most once, only right after a failed
\* build or run of a pipeline stage and only if ErrorHandler.Dir is not empty;
\* without a handler the result is returned with the original classification;
\* the handler's run is invoked only right after its build succeeded, and its
\* input is the serialization of the failing stage's record as appended to
\* StageResults, which has only its build half after a build failure.
C17_HandlerProtocol ==
    /\ Len(CallsOf({"handlerBuild"})) <= 1
    /\ Len(CallsOf({"handlerRun"})) <= 1
    /\ \A k \in DOMAIN calls :
          LET c == calls[k]
          IN  /\ c.op = "handlerBuild"
                 => /\ handlerConfigured(p.ErrorHandler)
                    /\ calls[k - 1].op \in {"build", "run"}
                    /\ ~CallOk(calls[k - 1])
              /\ c.op = "handlerRun"
                 => /\ calls[k - 1].op = "handlerBuild"
                    /\ CallOk(calls[k - 1])
                    /\ LET failed == calls[k - 2]
                           rec == StageResults[failed.stage]
                       IN  /\ c.stdin = JsonMarshal(rec)
                           /\ origin[failed.stage] = failed.stage
                           /\ rec.FinalTime # 0
                           /\ rec.BuildResult = (IF failed.op = "build" THEN failed.res
                                                 ELSE calls[k - 3].res)
                           /\ rec.RunResult = (IF failed.op = "build" THEN ZeroCmdResult
                                               ELSE failed.res)
    /\ ~handlerConfigured(p.ErrorHandler)
       => /\ CallsOf({"handlerBuild", "handlerRun"}) = <<>>
          /\ (Returned /\ LastCall.op = "build") => ret.result.Status = "BuildError"
          /\ (Returned /\ LastCall.op = "run") => ret.result.Status = "RunError"

C17_Witness ==
    /\ Len(calls) = 7
    /\ calls[5].op = "run" /\ calls[5].stage = 2 /\ calls[5].proc.err = "ExitError"
    /\ calls[7].op = "handlerRun"
    /\ calls[7].stdin = JsonMarshal(StageResults[2])

-----------------------------------------------------------------------------
(* C18 *)

\* both halves of the record completed with a nil error and exit status 0
RecordSucceeded(rec) ==
    /\ rec.BuildResult.ExitStatus = 0 /\ rec.BuildResult.CmdDir # <<>>
    /\ rec.RunResult.ExitStatus = 0 /\ rec.RunResult.CmdDir # <<>>

\* the positions of StageResults that hold the record of a pipeline stage
StagePositions == { i \in DOMAIN StageResults : origin[i] >= 1 }

\* C18: a pipeline-stage record that is followed by another pipeline-stage record
\* succeeded in both halves; at most one pipeline-stage record is that of a failed
\* stage, and it is the last pipeline-stage record.
C18_OnlyLastStageFailed ==
    /\ Len(origin) = Len(StageResults)
    /\ \A i \in StagePositions :
          (\E j \in StagePositions : j > i) => RecordSucceeded(StageResults[i])
    /\ Cardinality({ i \in StagePositions : ~RecordSucceeded(StageResults[i]) }) <= 1
    /\ \A i \in StagePositions :
          ~RecordSucceeded(StageResults[i]) => \A j \in StagePositions : j <= i

C18_Witness ==
    /\ Cardinality(StagePositions) = 2
    /\ RecordSucceeded(StageResults[1])
    /\ ~RecordSucceeded(StageResults[2])
    /\ StageResults[2].RunResult.ExitStatus = 2

-----------------------------------------------------------------------------
(* C19 *)

\* C19: while the loop processes the stage at 0-based position index, StageResults
\* has exactly index entries, so StageResults[index-1] (1-based: entry index) is
\* in bounds and is the record of the preceding stage, which succeeded.
C19_IndexSafety ==
    pc \in {"build", "run"}
    => /\ index < N
       /\ Len(StageResults) = index
       /\ index > 0
          => /\ origin[index] = index
             /\ IsRecordOfStage(StageResults[index], index)
             /\ RecordSucceeded(StageResults[index])

C19_Witness ==
    /\ pc = "run" /\ index = 1
    /\ StageResults[1].RunResult.Stdout # <<>>

-----------------------------------------------------------------------------
(* C20 *)

\* the calls of the given operation for the stage at the given position
Invocations(op, stage) == SelectSeq(calls, LAMBDA c : c.op = op /\ c.stage = stage)

\* no invocation has been made more than once
NoRetry ==
    /\ \A op \in {"setup", "tearDown", "handlerBuild", "handlerRun"} :
          Len(CallsOf({op})) <= 1
    /\ \A op \in {"build", "run"}, i \in 1..MaxStages + 1 :
          Len(Invocations(op, i)) <= 1
    /\ \A c \in { calls[k] : k \in DOMAIN calls } :
          c.op \in {"build", "run"} => c.stage \in 1..N

\* C20: if every external invocation returns, Run returns; at every moment setup,
\* tearDown, the build and the run of each stage and the build and the run of the
\* handler have each been invoked at most once; nothing is invoked after the
\* return.
C20_Termination ==
    /\ <>Returned
    /\ []NoRetry
    /\ [][pc = "done" => calls' = calls]_vars

C20_Witness ==
    /\ Returned
    /\ N = MaxStages
    /\ Len(calls) = 2 * N + 2
    /\ LastCall.op = "tearDown"
    /\ ~CallOk(LastCall)

====
